---- MODULE Spec2Model ----
(***************************************************************************)
(* A model of the LSS-Twon relational store (Users, Tweets, Follows,       *)
(* Likes), of its bulk loader populate_database and of the feed queries of *)
(* TwitterDBQuery.                                                         *)
(*                                                                         *)
(* The store is the committed content of the four tables declared in       *)
(* build_database.py, with their foreign keys enforced.  The loader runs   *)
(* its four steps inside one database transaction (txUsers .. txLikes is   *)
(* the transaction's working copy) and commits at the end; an exception    *)
(* ends the transaction without a commit.                                  *)
(*                                                                         *)
(* Spec        the loader statement by statement, and User deletions.      *)
(* SpecFeed    whole loads, User deletions and the feed queries, one call  *)
(*             at a time.                                                  *)
(* SpecQuery   whole loads and every query method of TwitterDBQuery, the   *)
(*             server up or down, with any limit.                          *)
(* SpecRead    the loader statement by statement and the queries of other  *)
(*             connections between its statements.                         *)
(* SpecThreads threads that call the methods of one TwitterDBQuery object, *)
(*             statement by statement.                                     *)
(* SpecSchema  create_tables and whole loads.                              *)
(* SpecHarvest the loader statement by statement over batches of several   *)
(*             rows.                                                       *)
(***************************************************************************)
EXTENDS Integers, Sequences, FiniteSets, TLC

\* ---------------------------------------------------------------- bounds
MaxUser  == 2     \* user ids are 1..MaxUser
MaxTweet == 2     \* tweet ids are 1..MaxTweet
MaxTime  == 2     \* timestamps are 1..MaxTime
MaxRows  == 1     \* rows per CSV file of one batch
MaxLoads == 2     \* loads started in one behaviour
MaxLimit == 2     \* explicit LIMIT values are at most MaxLimit
MaxThread == 2    \* threads that share one TwitterDBQuery object
MaxHarvestRows == 2  \* rows of one batch in SpecHarvest

\* ------------------------------------------------------------ value sets
\* A missing CSV cell (pandas NaN), Python None and SQL NULL, for ids and
\* timestamps; pd.to_datetime(..., errors='coerce') of a missing cell is NaT.
NaN == 0
\* A timestamp cell that does not parse: to_datetime coerces it to NaT.
BadTime == -1
\* Python None / SQL NULL for a username.
None == "None"

UserIds   == 1..MaxUser
TweetIds  == 1..MaxTweet
Times     == 1..MaxTime
Names     == {"a", "b"}
Texts     == {"hi"}
TableNames == {"Users", "Tweets", "Follows", "Likes"}
Threads   == 1..MaxThread

\* --------------------------------------------------------------- the state
VARIABLES
    Users,      \* user_id -> username (None when NULL), the rows of Users
    Tweets,     \* tweet_id -> the other columns of the Tweets row
    Follows,    \* set of <<follower_id, followee_id>>
    Likes,      \* set of [user_id, tweet_id, collected_at], keyed by the first two
    pc,         \* position of populate_database: idle, step2, step3, step4, commit
    batch,      \* the three data frames of the load in progress (or the last one)
    txUsers, txTweets, txFollows, txLikes,  \* the open transaction's view
    last,       \* what the last finished operation was and how it ended
    nLoads,     \* loads started so far
    query,      \* the last query operation, its arguments and how it ended
    result,     \* the rows the last query returned
    tables,     \* the tables that exist in the database
    self_conn,  \* the conn field of the shared TwitterDBQuery object
    conns,      \* connection -> "none", "open" or "closed"
    threads     \* thread -> its call on the shared TwitterDBQuery object

store == <<Users, Tweets, Follows, Likes>>
tx    == <<txUsers, txTweets, txFollows, txLikes>>
\* The schema, and the TwitterDBQuery object that threads share.
others == <<tables, self_conn, conns, threads>>
vars  == <<Users, Tweets, Follows, Likes, pc, batch,
           txUsers, txTweets, txFollows, txLikes, last, nLoads, query, result,
           tables, self_conn, conns, threads>>

EmptyFn == [x \in {} |-> 0]

\* ------------------------------------------------------------ input rows
FollowRows ==
    [from_id : UserIds \cup {NaN}, id : UserIds \cup {NaN}, username : Names]

LikeRows ==
    [original_user_id : UserIds \cup {NaN}, screen_name : Names,
     liked_user_id : UserIds \cup {NaN}, tweet_id : TweetIds \cup {NaN},
     full_text : Texts, created_at : {1},
     collected_at : Times \cup {NaN, BadTime}]

TweetRows ==
    [tweet_id : TweetIds \cup {NaN}, original_user_id : UserIds \cup {NaN},
     screen_name : Names, full_text : Texts,
     created_at : Times \cup {NaN},
     retweeted_user_ID : UserIds \cup {NaN}, collected_at : {1}]

EmptyBatch == [follows |-> <<>>, likes |-> <<>>, tweets |-> <<>>]

\* The batches of at most MaxRows rows over the three files.
Batches ==
    UNION {
        [follows : [1..nf -> FollowRows],
         likes   : [1..nl -> LikeRows],
         tweets  : [1..(n - nf - nl) -> TweetRows]] :
        <<n, nf, nl>> \in {t \in (0..MaxRows) \X (0..MaxRows) \X (0..MaxRows) :
                              t[2] + t[3] <= t[1]}}

\* ------------------------------------------------- pandas / Python helpers
notna(x) == x # NaN

\* pd.to_datetime(x, errors='coerce'): a missing or unparseable cell is NaT.
to_datetime(x) == IF x = NaN \/ x = BadTime THEN NaN ELSE x

\* dict.get(k, default): the stored value when the key is present, even when
\* that value is None.
DictGet(d, k, default) == IF k \in DOMAIN d THEN d[k] ELSE default

DictPut(d, k, v) == [x \in DOMAIN d \cup {k} |-> IF x = k THEN v ELSE d[x]]

\* ------------------------------------------------------ step 1: the users
\* users[row['id']] = users.get(row['id'], row['username'])
\* users[row['from_id']] = users.get(row['from_id'], None)
HarvestFollowRow(users, row) ==
    LET u1 == DictPut(users, row.id, DictGet(users, row.id, row.username))
    IN  DictPut(u1, row.from_id, DictGet(u1, row.from_id, None))

\* Mutant of HarvestLikeRow: the author of the liked tweet is not harvested.
HarvestLikeRowLikerOnly(users, row) ==
    DictPut(users, row.original_user_id,
            DictGet(users, row.original_user_id, row.screen_name))

HarvestLikeRow(users, row) ==
    LET u1 == DictPut(users, row.original_user_id,
                      DictGet(users, row.original_user_id, row.screen_name))
    IN  DictPut(u1, row.liked_user_id, DictGet(u1, row.liked_user_id, None))

HarvestTweetRow(users, row) ==
    LET u1 == DictPut(users, row.original_user_id,
                      DictGet(users, row.original_user_id, row.screen_name))
    IN  IF notna(row.retweeted_user_ID)
        THEN DictPut(u1, row.retweeted_user_ID,
                     DictGet(u1, row.retweeted_user_ID, None))
        ELSE u1

RECURSIVE HarvestFollows(_, _)
HarvestFollows(users, rows) ==
    IF rows = <<>> THEN users
    ELSE HarvestFollows(HarvestFollowRow(users, Head(rows)), Tail(rows))

RECURSIVE HarvestLikes(_, _)
HarvestLikes(users, rows) ==
    IF rows = <<>> THEN users
    ELSE HarvestLikes(HarvestLikeRow(users, Head(rows)), Tail(rows))

RECURSIVE HarvestTweets(_, _)
HarvestTweets(users, rows) ==
    IF rows = <<>> THEN users
    ELSE HarvestTweets(HarvestTweetRow(users, Head(rows)), Tail(rows))

\* The users dict after the three harvesting loops.
HarvestUsers(b) ==
    HarvestTweets(HarvestLikes(HarvestFollows(EmptyFn, b.follows), b.likes),
                  b.tweets)

\* user_list = [(int(uid), uname) for uid, uname in users.items() if pd.notna(uid)]
UserList(b) ==
    LET users == HarvestUsers(b)
    IN  [u \in {k \in DOMAIN users : notna(k)} |-> users[u]]

\* Mutant of Coalesce: the incoming username wins when it is not null.
CoalesceExcludedFirst(existing, excluded) ==
    IF excluded # None THEN excluded ELSE existing

\* COALESCE(Users.username, EXCLUDED.username)
Coalesce(existing, excluded) == IF existing # None THEN existing ELSE excluded

\* INSERT INTO Users ... ON CONFLICT (user_id) DO UPDATE SET username = COALESCE(...)
UpsertUsers(U, user_list) ==
    [u \in DOMAIN U \cup DOMAIN user_list |->
        IF u \notin DOMAIN U THEN user_list[u]
        ELSE IF u \in DOMAIN user_list THEN Coalesce(U[u], user_list[u])
        ELSE U[u]]

\* ----------------------------------------------------- step 2: the tweets
\* One entry of all_tweets from a row of the tweets file.  int(NaN) raises
\* ValueError, so the caller checks original_user_id first.
TweetTuple(row) ==
    [author_id          |-> row.original_user_id,
     full_text          |-> row.full_text,
     created_at         |-> to_datetime(row.created_at),
     retweet_of_user_id |-> row.retweeted_user_ID,
     collected_at       |-> to_datetime(row.collected_at)]

\* One entry of all_tweets from a row of the likes file: the author is
\* liked_user_id and there is no retweet information.
LikedTweetTuple(row) ==
    [author_id          |-> row.liked_user_id,
     full_text          |-> row.full_text,
     created_at         |-> to_datetime(row.created_at),
     retweet_of_user_id |-> NaN,
     collected_at       |-> to_datetime(row.collected_at)]

\* if pd.notna(tweet_id) and tweet_id not in all_tweets: all_tweets[tweet_id] = (...)
\* acc.raised records a ValueError of int(row['original_user_id']).
AddTweetRow(acc, row) ==
    IF acc.raised THEN acc
    ELSE IF notna(row.tweet_id) /\ row.tweet_id \notin DOMAIN acc.d
    THEN IF row.original_user_id = NaN
         THEN [acc EXCEPT !.raised = TRUE]
         ELSE [acc EXCEPT !.d = DictPut(acc.d, row.tweet_id, TweetTuple(row))]
    ELSE acc

AddLikedTweetRow(acc, row) ==
    IF acc.raised THEN acc
    ELSE IF notna(row.tweet_id) /\ row.tweet_id \notin DOMAIN acc.d
    THEN IF row.liked_user_id = NaN
         THEN [acc EXCEPT !.raised = TRUE]
         ELSE [acc EXCEPT !.d = DictPut(acc.d, row.tweet_id, LikedTweetTuple(row))]
    ELSE acc

RECURSIVE AddTweetRows(_, _)
AddTweetRows(acc, rows) ==
    IF rows = <<>> THEN acc
    ELSE AddTweetRows(AddTweetRow(acc, Head(rows)), Tail(rows))

RECURSIVE AddLikedTweetRows(_, _)
AddLikedTweetRows(acc, rows) ==
    IF rows = <<>> THEN acc
    ELSE AddLikedTweetRows(AddLikedTweetRow(acc, Head(rows)), Tail(rows))

\* all_tweets after both loops; raised when an int() conversion failed.
AllTweets(b) ==
    AddLikedTweetRows(AddTweetRows([raised |-> FALSE, d |-> EmptyFn], b.tweets),
                      b.likes)

\* tweet_list: every entry of all_tweets (the filter on t[0] and t[1] always
\* passes: both went through int()), a NaN retweet id becoming None.
TweetList(b) == AllTweets(b).d

\* Mutant of TweetListBad: a NaT parameter is sent as NULL.
TweetListNeverBad(tweet_list) == FALSE

\* A timestamp parameter that is NaT reaches the server as the literal 'NaT',
\* which is no timestamp: the statement fails with a psycopg2.DataError.
TweetListBad(tweet_list) ==
    \E t \in DOMAIN tweet_list :
        tweet_list[t].created_at = NaN \/ tweet_list[t].collected_at = NaN

\* The foreign keys of a Tweets row (author_id NOT NULL REFERENCES Users,
\* retweet_of_user_id REFERENCES Users).
TweetFkOk(U, t) ==
    /\ t.author_id \in DOMAIN U
    /\ t.retweet_of_user_id = NaN \/ t.retweet_of_user_id \in DOMAIN U

\* Mutant of InsertTweets: no ON CONFLICT clause, a present key is a
\* unique violation.
InsertTweetsNoConflictClause(T, U, tweet_list) ==
    IF TweetListBad(tweet_list)
       \/ \E t \in DOMAIN tweet_list : t \in DOMAIN T \/ ~TweetFkOk(U, tweet_list[t])
    THEN [failed |-> TRUE, T |-> T]
    ELSE [failed |-> FALSE,
          T |-> [t \in DOMAIN T \cup DOMAIN tweet_list |->
                    IF t \in DOMAIN T THEN T[t] ELSE tweet_list[t]]]

\* Mutant of InsertTweets: ON CONFLICT (tweet_id) DO UPDATE, the incoming row
\* replaces the stored one.
InsertTweetsDoUpdate(T, U, tweet_list) ==
    IF TweetListBad(tweet_list)
       \/ \E t \in DOMAIN tweet_list : ~TweetFkOk(U, tweet_list[t])
    THEN [failed |-> TRUE, T |-> T]
    ELSE [failed |-> FALSE,
          T |-> [t \in DOMAIN T \cup DOMAIN tweet_list |->
                    IF t \in DOMAIN tweet_list THEN tweet_list[t] ELSE T[t]]]

\* INSERT INTO Tweets ... ON CONFLICT (tweet_id) DO NOTHING, in the transaction
\* whose Users are U: the new table, or failed when the statement raises.
InsertTweets(T, U, tweet_list) ==
    LET new == {t \in DOMAIN tweet_list : t \notin DOMAIN T}
    IN  IF TweetListBad(tweet_list)
           \/ \E t \in new : ~TweetFkOk(U, tweet_list[t])
        THEN [failed |-> TRUE, T |-> T]
        ELSE [failed |-> FALSE,
              T |-> [t \in DOMAIN T \cup new |->
                        IF t \in DOMAIN T THEN T[t] ELSE tweet_list[t]]]

\* ---------------------------------------------------- step 3: the follows
\* df_follows[['from_id', 'id']].dropna().astype(int).values.tolist()
FollowsList(b) ==
    {<<b.follows[i].from_id, b.follows[i].id>> :
        i \in {j \in DOMAIN b.follows :
                 notna(b.follows[j].from_id) /\ notna(b.follows[j].id)}}

\* INSERT INTO Follows ... ON CONFLICT (follower_id, followee_id) DO NOTHING
InsertFollows(F, U, follows_list) ==
    LET new == follows_list \ F
    IN  IF \E f \in new : f[1] \notin DOMAIN U \/ f[2] \notin DOMAIN U
        THEN [failed |-> TRUE, F |-> F]
        ELSE [failed |-> FALSE, F |-> F \cup new]

\* ------------------------------------------------------ step 4: the likes
\* df_likes[['original_user_id', 'tweet_id', 'collected_at']].dropna(), in
\* file order, collected_at through to_datetime.
RECURSIVE LikesList(_)
LikesList(rows) ==
    IF rows = <<>> THEN <<>>
    ELSE LET r == Head(rows)
         IN  IF notna(r.original_user_id) /\ notna(r.tweet_id)
                /\ notna(r.collected_at)
             THEN <<[user_id |-> r.original_user_id, tweet_id |-> r.tweet_id,
                     collected_at |-> to_datetime(r.collected_at)]>>
                  \o LikesList(Tail(rows))
             ELSE LikesList(Tail(rows))

HasLike(L, u, t) == \E l \in L : l.user_id = u /\ l.tweet_id = t

\* The rows of likes_list the statement inserts: the first of each absent key.
RECURSIVE AddLikes(_, _)
AddLikes(L, likes_list) ==
    IF likes_list = <<>> THEN L
    ELSE LET l == Head(likes_list)
         IN  AddLikes(IF HasLike(L, l.user_id, l.tweet_id) THEN L ELSE L \cup {l},
                      Tail(likes_list))

\* INSERT INTO Likes ... ON CONFLICT (user_id, tweet_id) DO NOTHING
InsertLikes(L, U, T, likes_list) ==
    LET after == AddLikes(L, likes_list)
    IN  IF \/ \E i \in DOMAIN likes_list : likes_list[i].collected_at = NaN
           \/ \E l \in after \ L :
                 l.user_id \notin DOMAIN U \/ l.tweet_id \notin DOMAIN T
        THEN [failed |-> TRUE, L |-> L]
        ELSE [failed |-> FALSE, L |-> after]

\* --------------------------------------------------------- point queries
\* get_user_likes: SELECT tweet_id FROM Likes WHERE user_id = %s
get_user_likes(L, user_id) == {l.tweet_id : l \in {k \in L : k.user_id = user_id}}

\* get_tweet_by_id: SELECT * FROM Tweets WHERE tweet_id = %s; fetchone() is
\* the row, or None (here <<>>) when there is none.
get_tweet_by_id(T, tweet_id) ==
    IF tweet_id \in DOMAIN T
    THEN <<[tweet_id |-> tweet_id, row |-> T[tweet_id]]>>
    ELSE <<>>

\* get_followees: SELECT followee_id FROM Follows WHERE follower_id = %s
get_followees(F, user_id) == {f[2] : f \in {g \in F : g[1] = user_id}}

\* get_followers: SELECT follower_id FROM Follows WHERE followee_id = %s
get_followers(F, user_id) == {f[1] : f \in {g \in F : g[2] = user_id}}

\* get_user_by_username: SELECT user_id FROM Users WHERE username = %s LIMIT 1;
\* fetchone() is any one matching row, or None (here <<>>).
get_user_by_username(U, username) ==
    IF \E u \in DOMAIN U : U[u] = username
    THEN {<<[user_id |-> u]>> : u \in {v \in DOMAIN U : U[v] = username}}
    ELSE {<<>>}

\* The lists that the rows S of a SELECT without ORDER BY may come back as.
Perms(S) ==
    {s \in [1..Cardinality(S) -> S] : \A i, j \in DOMAIN s : i # j => s[i] # s[j]}

\* ------------------------------------------------------------- the feeds
\* The IN (...) subquery of the feed queries: SELECT followee_id FROM Follows
\* WHERE follower_id = %s UNION SELECT %s.
\* Mutant of FeedAuthors: the followers of the user, not the followees.
FeedAuthorsFollowers(F, user_id) ==
    {f[1] : f \in {g \in F : g[2] = user_id}} \cup {user_id}

FeedAuthors(F, user_id) == get_followees(F, user_id) \cup {user_id}

\* The rows of Tweets t JOIN Users u ON t.author_id = u.user_id WHERE
\* t.author_id IN (...): the tweet ids the feed selects before any filter
\* on time.
FeedTweets(U, T, F, user_id) ==
    {t \in DOMAIN T :
        T[t].author_id \in DOMAIN U /\ T[t].author_id \in FeedAuthors(F, user_id)}

\* One row of the result: the selected columns, ru.username through the
\* LEFT JOIN (NULL when there is no such User).
Post(U, T, t) ==
    [tweet_id            |-> t,
     author_id           |-> T[t].author_id,
     author_username     |-> U[T[t].author_id],
     full_text           |-> T[t].full_text,
     created_at          |-> T[t].created_at,
     retweet_of_user_id  |-> T[t].retweet_of_user_id,
     retweet_of_username |-> IF T[t].retweet_of_user_id \in DOMAIN U
                             THEN U[T[t].retweet_of_user_id] ELSE None]

\* ORDER BY t.created_at DESC puts NULL first.
DescKey(x) == IF x = NaN THEN MaxTime + 1 ELSE x

\* Mutant of OrderedDesc: ORDER BY t.created_at ASC.
OrderedAsc(T, s) ==
    \A i, j \in DOMAIN s :
        i < j => DescKey(T[s[i]].created_at) <= DescKey(T[s[j]].created_at)

\* s is in an order that ORDER BY t.created_at DESC allows: rows with equal
\* created_at come in whatever order the server produces them.
OrderedDesc(T, s) ==
    \A i, j \in DOMAIN s :
        i < j => DescKey(T[s[i]].created_at) >= DescKey(T[s[j]].created_at)

\* The sequences the server may return for the selected rows S.
Orderings(T, S) ==
    {s \in [1..Cardinality(S) -> S] :
        /\ \A i, j \in DOMAIN s : i # j => s[i] # s[j]
        /\ OrderedDesc(T, s)}

\* Mutant of Limit: the rows are cut at the front, the last n are kept.
LimitFromEnd(s, n) ==
    SubSeq(s, (IF n < Len(s) THEN Len(s) - n ELSE 0) + 1, Len(s))

\* LIMIT n, n >= 0.
Limit(s, n) == SubSeq(s, 1, IF n < Len(s) THEN n ELSE Len(s))

Posts(U, T, s) == [i \in DOMAIN s |-> Post(U, T, s[i])]

\* How often author a comes out of the subquery when its two branches are
\* concatenated (UNION ALL) instead of united.
SubqueryCopies(F, user_id, a) ==
    (IF <<user_id, a>> \in F THEN 1 ELSE 0) + (IF a = user_id THEN 1 ELSE 0)

RECURSIVE JoinedWithSubquery(_, _, _, _)
JoinedWithSubquery(T, F, user_id, s) ==
    IF s = <<>> THEN <<>>
    ELSE [i \in 1..SubqueryCopies(F, user_id, T[Head(s)].author_id)
             |-> Head(s)]
         \o JoinedWithSubquery(T, F, user_id, Tail(s))

\* Mutant of get_user_feed: the subquery is joined to Tweets instead of
\* tested with IN, and its branches are not united: a Tweet comes once for
\* every copy of its author.
get_user_feed_joined(U, T, F, user_id, limit) ==
    {Posts(U, T, Limit(JoinedWithSubquery(T, F, user_id, s), limit)) :
        s \in Orderings(T, FeedTweets(U, T, F, user_id))}

\* get_user_feed(user_id, limit): the results the query may return.
get_user_feed(U, T, F, user_id, limit) ==
    {Posts(U, T, Limit(s, limit)) : s \in Orderings(T, FeedTweets(U, T, F, user_id))}

\* Mutant of UntilFilter: the end bound is exclusive.
UntilFilterExclusive(T, S, enddate) == {t \in S : T[t].created_at # NaN /\ T[t].created_at < enddate}

\* AND t.created_at <= %s: a NULL created_at does not pass.
UntilFilter(T, S, enddate) ==
    {t \in S : T[t].created_at # NaN /\ T[t].created_at <= enddate}

\* get_user_feed_until(user_id, enddate, limit)
get_user_feed_until(U, T, F, user_id, enddate, limit) ==
    {Posts(U, T, Limit(s, limit)) :
        s \in Orderings(T, UntilFilter(T, FeedTweets(U, T, F, user_id), enddate))}

\* The time window of get_user_feed_until_between: start <= created_at <= end,
\* or created_at <= end when no start is given.
BetweenFilter(T, S, startdate, enddate) ==
    {t \in S : /\ T[t].created_at # NaN
               /\ T[t].created_at <= enddate
               /\ startdate = NaN \/ startdate <= T[t].created_at}

\* get_user_feed_until_between(user_id, startdate, enddate, limit)
get_user_feed_until_between(U, T, F, user_id, startdate, enddate, limit) ==
    {Posts(U, T, Limit(s, limit)) :
        s \in Orderings(T, BetweenFilter(T, FeedTweets(U, T, F, user_id),
                                         startdate, enddate))}

\* The rows of get_user_posts: Tweets t JOIN Users u ON t.author_id =
\* u.user_id WHERE t.author_id = %s.
\* Mutant of AuthorTweets: the Tweets that retweet the user count as theirs.
AuthorTweetsAndRetweets(U, T, user_id) ==
    {t \in DOMAIN T :
        /\ T[t].author_id \in DOMAIN U
        /\ T[t].author_id = user_id \/ T[t].retweet_of_user_id = user_id}

AuthorTweets(U, T, user_id) ==
    {t \in DOMAIN T : T[t].author_id \in DOMAIN U /\ T[t].author_id = user_id}

\* get_user_posts(user_id): ORDER BY t.created_at DESC, no LIMIT.
get_user_posts(U, T, user_id) ==
    {Posts(U, T, s) : s \in Orderings(T, AuthorTweets(U, T, user_id))}

\* _format_post: the lines of the text block, a retweet when
\* post.get('retweet_of_user_id') is truthy.
format_post(post) ==
    IF post.retweet_of_user_id # NaN
    THEN [marker |-> "Retweeted by", handle |-> post.author_username,
          id |-> post.author_id, original_handle |-> post.retweet_of_username,
          original_id |-> post.retweet_of_user_id, date |-> post.created_at,
          tweet_id |-> post.tweet_id, text |-> post.full_text]
    ELSE [marker |-> "Tweet by", handle |-> post.author_username,
          id |-> post.author_id, original_handle |-> None,
          original_id |-> NaN, date |-> post.created_at,
          tweet_id |-> post.tweet_id, text |-> post.full_text]

\* get_user_posts_formatted(user_id)
get_user_posts_formatted(U, T, user_id) ==
    {[i \in DOMAIN posts |-> format_post(posts[i])] :
        posts \in get_user_posts(U, T, user_id)}

\* psycopg2.connect raises OperationalError when the server cannot be
\* reached; _get_cursor prints the error and raises it again.
\* Mutant of ConnectError: the error is printed and not raised again.
ConnectErrorSwallowed(up) == "none"

ConnectError(up) == IF up THEN "none" ELSE "OperationalError"

\* The server rejects a negative LIMIT ("LIMIT must not be negative"), which
\* cur.execute raises as a psycopg2.DataError; LIMIT 0 is a valid statement.
LimitError(limit) == IF limit < 0 THEN "DataError" ELSE "none"

\* limit=100 in the signatures of get_user_feed and get_user_feed_until.
DefaultLimit == 100

\* ------------------------------------------- the load as one computation
\* What populate_database does to a store S = <<U, T, F, L>>: the store it
\* commits, or S itself with how it ended ("raised": an exception that its
\* except clause does not catch left the function; "rolled_back": a
\* psycopg2.Error, conn.rollback()).  failed_step is 0 on success.
LoadOutcome(S, b) ==
    LET U1 == UpsertUsers(S[1], UserList(b))
        r2 == InsertTweets(S[2], U1, TweetList(b))
        r3 == InsertFollows(S[3], U1, FollowsList(b))
        r4 == InsertLikes(S[4], U1, r2.T, LikesList(b.likes))
    IN  IF AllTweets(b).raised
        THEN [result |-> "raised", failed_step |-> 2, store |-> S]
        ELSE IF r2.failed
        THEN [result |-> "rolled_back", failed_step |-> 2, store |-> S]
        ELSE IF r3.failed
        THEN [result |-> "rolled_back", failed_step |-> 3, store |-> S]
        ELSE IF r4.failed
        THEN [result |-> "rolled_back", failed_step |-> 4, store |-> S]
        ELSE [result |-> "committed", failed_step |-> 0,
              store |-> <<U1, r2.T, r3.F, r4.L>>]

\* --------------------------------------------------- deleting a User row
\* DELETE FROM Users WHERE user_id = x under the schema's ON DELETE clauses:
\* Tweets.author_id CASCADE, Tweets.retweet_of_user_id SET NULL, Follows
\* CASCADE on both columns, Likes CASCADE on user_id and on tweet_id.
UsersWithout(U, x) == [u \in DOMAIN U \ {x} |-> U[u]]

\* Mutant of TweetsWithout: retweet_of_user_id cascades like author_id.
TweetsWithoutRetweets(T, x) ==
    [t \in {k \in DOMAIN T : T[k].author_id # x /\ T[k].retweet_of_user_id # x}
        |-> T[t]]

TweetsWithout(T, x) ==
    [t \in {k \in DOMAIN T : T[k].author_id # x} |->
        IF T[t].retweet_of_user_id = x
        THEN [T[t] EXCEPT !.retweet_of_user_id = NaN]
        ELSE T[t]]

FollowsWithout(F, x) == {f \in F : f[1] # x /\ f[2] # x}

\* Mutant of LikesWithout: the Likes of the deleted Tweets stay.
LikesWithoutTweetCascade(L, T, x) == {l \in L : l.user_id # x}

LikesWithout(L, T, x) ==
    {l \in L : l.user_id # x /\ T[l.tweet_id].author_id # x}

\* Tweets of other authors whose retweet_of_user_id is x.
RetweetsOf(T, x) ==
    {t \in DOMAIN T : T[t].author_id # x /\ T[t].retweet_of_user_id = x}

\* The committed tables have the columns that create_tables declares.
TypeOK ==
    /\ DOMAIN Users \subseteq UserIds
    /\ \A u \in DOMAIN Users : Users[u] \in Names \cup {None}
    /\ DOMAIN Tweets \subseteq TweetIds
    /\ \A t \in DOMAIN Tweets :
          /\ Tweets[t].author_id \in UserIds
          /\ Tweets[t].full_text \in Texts
          /\ Tweets[t].created_at \in Times \cup {NaN}
          /\ Tweets[t].retweet_of_user_id \in UserIds \cup {NaN}
          /\ Tweets[t].collected_at \in Times \cup {NaN}
    /\ Follows \subseteq UserIds \X UserIds
    /\ \A l \in Likes :
          /\ l.user_id \in UserIds /\ l.tweet_id \in TweetIds
          /\ l.collected_at \in Times \cup {NaN}
    /\ \A k, l \in Likes :
          (k.user_id = l.user_id /\ k.tweet_id = l.tweet_id) => k = l
    /\ pc \in {"idle", "step2", "step3", "step4", "commit"}

\* ------------------------------------------------------------ the actions
NoOp == [op |-> "none", result |-> "none", step |-> 0, user |-> NaN,
         cleared |-> {}]

\* up: whether the server could be reached when the call connected; raised:
\* the exception that left the call, "none" when it returned.
NoQuery == [op |-> "none", user_id |-> NaN, limit |-> 0, startdate |-> NaN,
            enddate |-> NaN, username |-> None, tweet_id |-> NaN,
            up |-> TRUE, raised |-> "none"]

\* A thread that is not inside a method of the shared object.  cur is the
\* connection its cursor belongs to (0: no cursor).
NoCall == [pc |-> "idle", cur |-> 0, op |-> "none", user_id |-> NaN,
           rows |-> {}, raised |-> "none"]

\* No rows, no load, no call.
InitRows ==
    /\ Users = EmptyFn /\ Tweets = EmptyFn /\ Follows = {} /\ Likes = {}
    /\ pc = "idle" /\ batch = EmptyBatch
    /\ txUsers = EmptyFn /\ txTweets = EmptyFn /\ txFollows = {} /\ txLikes = {}
    /\ last = NoOp /\ nLoads = 0
    /\ query = NoQuery /\ result = <<>>
    /\ self_conn = 0
    /\ conns = [c \in Threads |-> "none"]
    /\ threads = [t \in Threads |-> NoCall]

\* The database after create_tables has run: the four tables, empty.
Init == InitRows /\ tables = TableNames

\* Mutant of Abort: every statement was committed as it ran (autocommit),
\* so the failed load keeps what its earlier steps wrote.
AbortAfterAutocommit(how, step) ==
    /\ pc' = "idle"
    /\ last' = [NoOp EXCEPT !.op = "load", !.result = how, !.step = step]
    /\ Users' = txUsers /\ Tweets' = txTweets
    /\ Follows' = txFollows /\ Likes' = txLikes
    /\ txUsers' = EmptyFn /\ txTweets' = EmptyFn
    /\ txFollows' = {} /\ txLikes' = {}
    /\ UNCHANGED <<batch, nLoads, query, result, others>>

\* The transaction ends without a commit: conn.rollback() in the except
\* clause, or conn.close() in the finally clause with the exception still
\* propagating.  The committed tables are untouched.
Abort(how, step) ==
    /\ pc' = "idle"
    /\ last' = [NoOp EXCEPT !.op = "load", !.result = how, !.step = step]
    /\ txUsers' = EmptyFn /\ txTweets' = EmptyFn
    /\ txFollows' = {} /\ txLikes' = {}
    /\ UNCHANGED <<Users, Tweets, Follows, Likes, batch, nLoads, query, result,
                   others>>

\* Lines 39-81: read the files, connect (a transaction opens with the first
\* statement), harvest the users and upsert them.
Step1(b) ==
    /\ pc = "idle" /\ nLoads < MaxLoads
    /\ batch' = b
    /\ nLoads' = nLoads + 1
    /\ txUsers' = UpsertUsers(Users, UserList(b))
    /\ txTweets' = Tweets /\ txFollows' = Follows /\ txLikes' = Likes
    /\ pc' = "step2"
    /\ last' = NoOp
    /\ UNCHANGED <<Users, Tweets, Follows, Likes, query, result, others>>

\* Lines 83-122.
Step2 ==
    /\ pc = "step2"
    /\ IF AllTweets(batch).raised THEN Abort("raised", 2)
       ELSE LET r == InsertTweets(txTweets, txUsers, TweetList(batch))
            IN  IF r.failed THEN Abort("rolled_back", 2)
                ELSE /\ txTweets' = r.T
                     /\ pc' = "step3"
                     /\ UNCHANGED <<Users, Tweets, Follows, Likes, batch,
                                    txUsers, txFollows, txLikes, last, nLoads,
                                    query, result, others>>

\* Lines 125-130.
Step3 ==
    /\ pc = "step3"
    /\ LET r == InsertFollows(txFollows, txUsers, FollowsList(batch))
       IN  IF r.failed THEN Abort("rolled_back", 3)
           ELSE /\ txFollows' = r.F
                /\ pc' = "step4"
                /\ UNCHANGED <<Users, Tweets, Follows, Likes, batch,
                               txUsers, txTweets, txLikes, last, nLoads,
                               query, result, others>>

\* Lines 132-145.
Step4 ==
    /\ pc = "step4"
    /\ LET r == InsertLikes(txLikes, txUsers, txTweets, LikesList(batch.likes))
       IN  IF r.failed THEN Abort("rolled_back", 4)
           ELSE /\ txLikes' = r.L
                /\ pc' = "commit"
                /\ UNCHANGED <<Users, Tweets, Follows, Likes, batch,
                               txUsers, txTweets, txFollows, last, nLoads,
                               query, result, others>>

\* Line 148: conn.commit() makes the transaction's tables the committed ones.
Commit ==
    /\ pc = "commit"
    /\ Users' = txUsers /\ Tweets' = txTweets
    /\ Follows' = txFollows /\ Likes' = txLikes
    /\ pc' = "idle"
    /\ last' = [NoOp EXCEPT !.op = "load", !.result = "committed"]
    /\ txUsers' = EmptyFn /\ txTweets' = EmptyFn
    /\ txFollows' = {} /\ txLikes' = {}
    /\ UNCHANGED <<batch, nLoads, query, result, others>>

\* One DELETE of a Users row, with the cascades the schema declares, as the
\* single statement it is.
DeleteUser(x) ==
    /\ pc = "idle" /\ query = NoQuery
    /\ x \in DOMAIN Users
    /\ Users' = UsersWithout(Users, x)
    /\ Tweets' = TweetsWithout(Tweets, x)
    /\ Follows' = FollowsWithout(Follows, x)
    /\ Likes' = LikesWithout(Likes, Tweets, x)
    /\ last' = [NoOp EXCEPT !.op = "delete", !.result = "committed",
                            !.user = x, !.cleared = RetweetsOf(Tweets, x)]
    /\ UNCHANGED <<pc, batch, txUsers, txTweets, txFollows, txLikes, nLoads,
                   query, result, others>>

Next ==
    \/ \E b \in Batches : Step1(b)
    \/ Step2
    \/ Step3
    \/ Step4
    \/ Commit
    \/ \E x \in UserIds : DeleteUser(x)

Spec == Init /\ [][Next]_vars

\* populate_database from its first line to its return, as one step: the
\* store it commits, or no change.  Its data frames are gone when it returns.
Load(b) ==
    /\ pc = "idle" /\ query = NoQuery /\ nLoads < MaxLoads
    /\ LET o == LoadOutcome(store, b)
       IN  /\ Users' = o.store[1] /\ Tweets' = o.store[2]
           /\ Follows' = o.store[3] /\ Likes' = o.store[4]
           /\ last' = [NoOp EXCEPT !.op = "load", !.result = o.result,
                                   !.step = o.failed_step]
    /\ nLoads' = nLoads + 1
    /\ UNCHANGED <<pc, batch, txUsers, txTweets, txFollows, txLikes,
                   query, result, others>>

\* The committed tables: what a statement of another connection reads while
\* the loader's transaction is open (READ COMMITTED, the server's default;
\* the loader's connection is not in autocommit mode).
InLoad == pc \in {"step2", "step3", "step4", "commit"}

\* Mutant of Snapshot: a reader sees the rows the loader has not committed.
SnapshotUncommitted == IF InLoad THEN tx ELSE store

Snapshot == store

\* The committed tables S after a call q: each method runs one SELECT and
\* its connection is closed without a commit.
\* Mutant of Written: get_user_likes takes the Likes it returns out of the
\* table.
WrittenLikesTaken(q, S) ==
    IF q.op = "get_user_likes" /\ q.up
    THEN <<S[1], S[2], S[3], {l \in S[4] : l.user_id # q.user_id}>>
    ELSE S

Written(q, S) == S

\* One call of a query method of a TwitterDBQuery object of its own: connect,
\* run the method's one SELECT on a snapshot, close the connection.  q names
\* the method and its arguments, rows are the row lists the SELECT may return.
Call(q, up, statement_error, rows) ==
    /\ query = NoQuery
    /\ LET raised == IF ConnectError(up) # "none" THEN ConnectError(up)
                     ELSE statement_error
       IN  /\ query' = [q EXCEPT !.up = up, !.raised = raised]
           /\ IF up /\ raised = "none"
              THEN \E r \in rows : result' = r
              ELSE result' = <<>>
           /\ Users' = Written(query', store)[1]
           /\ Tweets' = Written(query', store)[2]
           /\ Follows' = Written(query', store)[3]
           /\ Likes' = Written(query', store)[4]
    /\ UNCHANGED <<pc, batch, txUsers, txTweets, txFollows, txLikes, last,
                   nLoads, others>>

GetUserLikes(up, user_id) ==
    Call([NoQuery EXCEPT !.op = "get_user_likes", !.user_id = user_id],
         up, "none", Perms(get_user_likes(Snapshot[4], user_id)))

GetUserByUsername(up, username) ==
    Call([NoQuery EXCEPT !.op = "get_user_by_username", !.username = username],
         up, "none", get_user_by_username(Snapshot[1], username))

GetFollowers(up, user_id) ==
    Call([NoQuery EXCEPT !.op = "get_followers", !.user_id = user_id],
         up, "none", Perms(get_followers(Snapshot[3], user_id)))

GetTweetById(up, tweet_id) ==
    Call([NoQuery EXCEPT !.op = "get_tweet_by_id", !.tweet_id = tweet_id],
         up, "none", {get_tweet_by_id(Snapshot[2], tweet_id)})

GetFollowees(up, user_id) ==
    Call([NoQuery EXCEPT !.op = "get_followees", !.user_id = user_id],
         up, "none", Perms(get_followees(Snapshot[3], user_id)))

GetUserFeed(up, user_id, limit) ==
    Call([NoQuery EXCEPT !.op = "get_user_feed", !.user_id = user_id,
                         !.limit = limit],
         up, LimitError(limit),
         get_user_feed(Snapshot[1], Snapshot[2], Snapshot[3], user_id, limit))

GetUserFeedUntil(up, user_id, enddate, limit) ==
    Call([NoQuery EXCEPT !.op = "get_user_feed_until", !.user_id = user_id,
                         !.limit = limit, !.enddate = enddate],
         up, LimitError(limit),
         get_user_feed_until(Snapshot[1], Snapshot[2], Snapshot[3], user_id,
                             enddate, limit))

GetUserFeedUntilBetween(up, user_id, startdate, enddate, limit) ==
    Call([NoQuery EXCEPT !.op = "get_user_feed_until_between",
                         !.user_id = user_id, !.limit = limit,
                         !.startdate = startdate, !.enddate = enddate],
         up, LimitError(limit),
         get_user_feed_until_between(Snapshot[1], Snapshot[2], Snapshot[3],
                                     user_id, startdate, enddate, limit))

GetUserPosts(up, user_id) ==
    Call([NoQuery EXCEPT !.op = "get_user_posts", !.user_id = user_id],
         up, "none", get_user_posts(Snapshot[1], Snapshot[2], user_id))

GetUserPostsFormatted(up, user_id) ==
    Call([NoQuery EXCEPT !.op = "get_user_posts_formatted", !.user_id = user_id],
         up, "none", get_user_posts_formatted(Snapshot[1], Snapshot[2], user_id))

\* The caller is done with the rows of its query.
Return ==
    /\ query # NoQuery
    /\ query' = NoQuery /\ result' = <<>>
    /\ UNCHANGED <<Users, Tweets, Follows, Likes, pc, batch,
                   txUsers, txTweets, txFollows, txLikes, last, nLoads, others>>

\* The store under whole loads and deletions, and the feed queries on it
\* with a limit that LIMIT accepts, the server being up, one call at a time.
Limits == 0..MaxLimit

NextFeed ==
    \/ Return
    \/ \E b \in Batches : Load(b)
    \/ \E x \in UserIds : DeleteUser(x)
    \/ \E u \in UserIds, n \in Limits : GetUserFeed(TRUE, u, n)
    \/ \E u \in UserIds, e \in Times, n \in Limits : GetUserFeedUntil(TRUE, u, e, n)
    \/ \E u \in UserIds, a \in Times \cup {NaN}, e \in Times, n \in Limits :
          GetUserFeedUntilBetween(TRUE, u, a, e, n)

SpecFeed == Init /\ [][NextFeed]_vars

\* Every query method of TwitterDBQuery on the store that whole loads leave,
\* the server up or down, with any limit or none.
AnyLimits == (-1..MaxLimit) \cup {DefaultLimit}

NextQuery ==
    \/ Return
    \/ \E b \in Batches : Load(b)
    \/ \E up \in BOOLEAN, u \in UserIds : GetUserLikes(up, u)
    \/ \E up \in BOOLEAN, n \in Names : GetUserByUsername(up, n)
    \/ \E up \in BOOLEAN, u \in UserIds : GetFollowers(up, u)
    \/ \E up \in BOOLEAN, t \in TweetIds : GetTweetById(up, t)
    \/ \E up \in BOOLEAN, u \in UserIds : GetFollowees(up, u)
    \/ \E up \in BOOLEAN, u \in UserIds, n \in AnyLimits : GetUserFeed(up, u, n)
    \/ \E up \in BOOLEAN, u \in UserIds, e \in Times, n \in AnyLimits :
          GetUserFeedUntil(up, u, e, n)
    \/ \E up \in BOOLEAN, u \in UserIds : GetUserPosts(up, u)
    \/ \E up \in BOOLEAN, u \in UserIds : GetUserPostsFormatted(up, u)

SpecQuery == Init /\ [][NextQuery]_vars

\* The loader statement by statement, and the queries that other connections
\* run while its transaction is open.
NextRead ==
    \/ \E b \in Batches : query = NoQuery /\ Step1(b)
    \/ Step2
    \/ Step3
    \/ Step4
    \/ Commit
    \/ Return
    \/ InLoad /\ \E u \in UserIds : GetUserFeed(TRUE, u, DefaultLimit)
    \/ InLoad /\ \E t \in TweetIds : GetTweetById(TRUE, t)
    \/ InLoad /\ \E n \in Names : GetUserByUsername(TRUE, n)

SpecRead == Init /\ [][NextRead]_vars

\* ------------------------------------------------- provisioning the schema
\* Lines 84-91: the operator chose [D]elete and the four DROP TABLE IF EXISTS
\* statements run.
\* Mutant of Dropped: [K]eep drops the tables as well.
DroppedOnKeep(choice, found_tables) ==
    found_tables # {} /\ choice \in {"d", "k"}

Dropped(choice, found_tables) == found_tables # {} /\ choice = "d"

\* create_tables with the operator's answer to its prompt, which is asked
\* only when one of the four tables exists.  The four CREATE TABLE IF NOT
\* EXISTS statements run unless the operator chose [A]bort.
CreateTables(choice) ==
    /\ pc = "idle"
    /\ LET found_tables == TableNames \cap tables
           do_create_tables == found_tables = {} \/ choice # "a"
           kept == IF Dropped(choice, found_tables) THEN {} ELSE tables
       IN  /\ IF Dropped(choice, found_tables)
              THEN /\ Users' = EmptyFn /\ Tweets' = EmptyFn
                   /\ Follows' = {} /\ Likes' = {}
              ELSE UNCHANGED <<Users, Tweets, Follows, Likes>>
           /\ tables' = IF do_create_tables
                        THEN kept \cup (TableNames \ kept)
                        ELSE tables
           /\ last' = [NoOp EXCEPT !.op = "create_tables",
                                   !.result = IF found_tables = {} THEN "none"
                                              ELSE choice]
    /\ UNCHANGED <<pc, batch, txUsers, txTweets, txFollows, txLikes, nLoads,
                   query, result, self_conn, conns, threads>>

\* A database in which any of the four tables may exist, all empty;
\* create_tables on it, and whole loads once the four tables are there.
InitSchema == InitRows /\ tables \in SUBSET TableNames

NextSchema ==
    \/ \E choice \in {"d", "k", "a"} : CreateTables(choice)
    \/ \E b \in Batches : tables = TableNames /\ Load(b)

SpecSchema == InitSchema /\ [][NextSchema]_vars

\* ----------------------------- one TwitterDBQuery object, several threads
\* A method call of thread t on the shared object, statement by statement.
\* Connection t is the one that thread t's call opens.
AllIdle == \A t \in Threads : threads[t].pc = "idle"

\* The rows of the call's SELECT on the committed tables.
CallRows(op, user_id) ==
    IF op = "get_followees" THEN get_followees(Follows, user_id)
    ELSE get_user_likes(Likes, user_id)

\* Line 39: self.conn = psycopg2.connect(**self.db_params).
ThreadConnect(t, op, user_id) ==
    /\ pc = "idle" /\ threads[t].pc = "idle"
    /\ conns' = [conns EXCEPT ![t] = "open"]
    /\ self_conn' = t
    /\ threads' = [threads EXCEPT ![t] = [NoCall EXCEPT !.pc = "connected",
                                                        !.op = op,
                                                        !.user_id = user_id]]
    /\ UNCHANGED <<Users, Tweets, Follows, Likes, pc, batch, txUsers, txTweets,
                   txFollows, txLikes, last, nLoads, query, result, tables>>

\* Line 40: cur = self.conn.cursor(...), on the connection that self.conn
\* names now.  A closed connection gives no cursor: psycopg2.InterfaceError,
\* which line 42 catches and raises again, through the finally clause.
ThreadCursor(t) ==
    /\ threads[t].pc = "connected"
    /\ IF conns[self_conn] = "open"
       THEN threads' = [threads EXCEPT ![t].pc = "cursor", ![t].cur = self_conn]
       ELSE threads' = [threads EXCEPT ![t].pc = "finally",
                                       ![t].raised = "InterfaceError"]
    /\ UNCHANGED <<Users, Tweets, Follows, Likes, pc, batch, txUsers, txTweets,
                   txFollows, txLikes, last, nLoads, query, result, tables,
                   self_conn, conns>>

\* cur.execute(query, (user_id,)): the rows come to the cursor, or
\* InterfaceError when the cursor's connection has been closed.
ThreadExecute(t) ==
    /\ threads[t].pc = "cursor"
    /\ IF conns[threads[t].cur] = "open"
       THEN threads' = [threads EXCEPT
                           ![t].pc = "executed",
                           ![t].rows = CallRows(threads[t].op, threads[t].user_id)]
       ELSE threads' = [threads EXCEPT ![t].pc = "finally",
                                       ![t].raised = "InterfaceError"]
    /\ UNCHANGED <<Users, Tweets, Follows, Likes, pc, batch, txUsers, txTweets,
                   txFollows, txLikes, last, nLoads, query, result, tables,
                   self_conn, conns>>

\* return [... for row in cur.fetchall()]: fetchall on a cursor whose
\* connection has been closed raises InterfaceError.
ThreadFetch(t) ==
    /\ threads[t].pc = "executed"
    /\ IF conns[threads[t].cur] = "open"
       THEN threads' = [threads EXCEPT ![t].pc = "finally"]
       ELSE threads' = [threads EXCEPT ![t].pc = "finally", ![t].rows = {},
                                       ![t].raised = "InterfaceError"]
    /\ UNCHANGED <<Users, Tweets, Follows, Likes, pc, batch, txUsers, txTweets,
                   txFollows, txLikes, last, nLoads, query, result, tables,
                   self_conn, conns>>

\* Lines 45-47: finally: if self.conn: self.conn.close() closes the
\* connection that self.conn names now; the call returns or raises.
ThreadClose(t) ==
    /\ threads[t].pc = "finally"
    /\ conns' = [conns EXCEPT ![self_conn] = "closed"]
    /\ threads' = [threads EXCEPT ![t].pc = "done"]
    /\ UNCHANGED <<Users, Tweets, Follows, Likes, pc, batch, txUsers, txTweets,
                   txFollows, txLikes, last, nLoads, query, result, tables,
                   self_conn>>

\* Every call has ended and the callers go on.
ThreadsReturn ==
    /\ \A t \in Threads : threads[t].pc \in {"idle", "done"}
    /\ \E t \in Threads : threads[t].pc = "done"
    /\ threads' = [t \in Threads |-> NoCall]
    /\ UNCHANGED <<Users, Tweets, Follows, Likes, pc, batch, txUsers, txTweets,
                   txFollows, txLikes, last, nLoads, query, result, tables,
                   self_conn, conns>>

\* The store is loaded once, before the object's first call (self.conn is
\* None), and unchanged from then on; the threads call get_followees and
\* get_user_likes on the one object.
NextThreads ==
    \/ \E b \in Batches : self_conn = 0 /\ nLoads = 0 /\ Load(b)
    \/ \E t \in Threads, op \in {"get_followees", "get_user_likes"},
          u \in UserIds : ThreadConnect(t, op, u)
    \/ \E t \in Threads : ThreadCursor(t)
    \/ \E t \in Threads : ThreadExecute(t)
    \/ \E t \in Threads : ThreadFetch(t)
    \/ \E t \in Threads : ThreadClose(t)
    \/ ThreadsReturn

SpecThreads == Init /\ [][NextThreads]_vars

\* ------------------------------------------- loads of several rows at once
\* The stepwise loader again, over batches of up to MaxHarvestRows rows in
\* all, so that one row's anonymous reference to a user id can be harvested
\* before another row's username for it.  To keep the batches few the rows
\* name one tweet and carry parseable timestamps, and the store is loaded
\* once, from empty.
HarvestFollowRows == FollowRows

HarvestLikeRows ==
    {r \in LikeRows : r.tweet_id = 1 /\ r.collected_at = 1}

HarvestTweetRows ==
    {r \in TweetRows : r.tweet_id = 1 /\ r.created_at = 1}

HarvestBatches ==
    UNION {
        [follows : [1..nf -> HarvestFollowRows],
         likes   : [1..nl -> HarvestLikeRows],
         tweets  : [1..nt -> HarvestTweetRows]] :
        <<nf, nl, nt>> \in {t \in (0..MaxHarvestRows) \X (0..MaxHarvestRows)
                                 \X (0..MaxHarvestRows) :
                               t[1] + t[2] + t[3] <= MaxHarvestRows}}

NextHarvest ==
    \/ \E b \in HarvestBatches : nLoads = 0 /\ Step1(b)
    \/ Step2
    \/ Step3
    \/ Step4
    \/ Commit

SpecHarvest == Init /\ [][NextHarvest]_vars

\* ------------------------------------------------------------- the claims
LoadDone == pc = "idle" /\ last.op = "load"

\* C1: after any sequence of loads and User deletions from the empty store
\* no reference dangles: every Tweet's author, both ends of every Follow and
\* every Like's user are Users, every Like's tweet is a Tweet, and
\* get_tweet_by_id of an id that get_user_likes returns is never None.
C1_NoDanglingReference ==
    /\ \A t \in DOMAIN Tweets : Tweets[t].author_id \in DOMAIN Users
    /\ \A f \in Follows : f[1] \in DOMAIN Users /\ f[2] \in DOMAIN Users
    /\ \A l \in Likes : l.user_id \in DOMAIN Users /\ l.tweet_id \in DOMAIN Tweets
    /\ \A u \in UserIds : \A t \in get_user_likes(Likes, u) :
          get_tweet_by_id(Tweets, t) # <<>>

\* A User was deleted from a store that held Likes on Tweets, and Likes and
\* Tweets are left.
C1_Witness ==
    /\ last.op = "delete"
    /\ Likes # {}
    /\ \E u \in UserIds : get_user_likes(Likes, u) # {}

\* C4: loading the batch of a finished load again ends the same way and
\* leaves the four tables as the first load left them.
C4_LoadIdempotent ==
    LoadDone =>
        LET again == LoadOutcome(store, batch)
        IN  /\ again.store = store
            /\ again.result = last.result

\* A committed load whose tweet, follow and like keys are now all present.
C4_Witness ==
    /\ LoadDone /\ last.result = "committed"
    /\ DOMAIN TweetList(batch) # {}
    /\ DOMAIN TweetList(batch) \subseteq DOMAIN Tweets
    /\ LikesList(batch.likes) # <<>>

\* C5: a step never changes the non-null username of a User that stays in
\* the store.
C5_UsernameKept ==
    [][\A u \in DOMAIN Users :
          (Users[u] # None /\ u \in DOMAIN Users') => Users'[u] = Users[u]]_vars

\* A committed load carried another non-null username for a User whose
\* stored username is not null, and the stored one is still there.
C5_Witness ==
    /\ LoadDone /\ last.result = "committed"
    /\ \E u \in DOMAIN UserList(batch) :
          /\ UserList(batch)[u] # None
          /\ Users[u] # None
          /\ Users[u] # UserList(batch)[u]

\* C6: the step that removes User x leaves no Tweet by x, no Follow edge
\* with x, no Like by x, no Like on a Tweet that x wrote, and keeps every
\* other author's Tweet that retweeted x, with only that field cleared.
C6_DeleteCascades ==
    [][\A x \in DOMAIN Users : x \notin DOMAIN Users' =>
          /\ \A t \in DOMAIN Tweets' : Tweets'[t].author_id # x
          /\ \A f \in Follows' : f[1] # x /\ f[2] # x
          /\ \A l \in Likes' :
                /\ l.user_id # x
                /\ l.tweet_id \in DOMAIN Tweets => Tweets[l.tweet_id].author_id # x
          /\ \A t \in DOMAIN Tweets :
                (Tweets[t].author_id # x /\ Tweets[t].retweet_of_user_id = x) =>
                    /\ t \in DOMAIN Tweets'
                    /\ Tweets'[t] = [Tweets[t] EXCEPT !.retweet_of_user_id = NaN]]_vars

\* A User was deleted whom another author's Tweet retweeted; that Tweet is
\* still stored.
C6_Witness ==
    /\ last.op = "delete"
    /\ last.cleared # {}
    /\ \A t \in last.cleared :
          t \in DOMAIN Tweets /\ Tweets[t].retweet_of_user_id = NaN

\* C8: while a load runs the committed tables change only at its commit,
\* and then to what all four steps together produce; a load that fails
\* leaves them as they were.
C8_AllOrNothing ==
    [][(pc # "idle" /\ store' # store) =>
          /\ pc = "commit"
          /\ LoadOutcome(store, batch).result = "committed"
          /\ store' = LoadOutcome(store, batch).store]_vars

\* A load failed with an exception that is no database error after step 1
\* had upserted a User the store does not hold.
C8_Witness ==
    /\ LoadDone /\ last.result = "raised"
    /\ \E u \in DOMAIN UserList(batch) : u \notin DOMAIN Users

\* Some row of the batch misses tweet_id, original_user_id, liked_user_id,
\* from_id or id.
MissingIdField(b) ==
    \/ \E i \in DOMAIN b.follows :
          b.follows[i].from_id = NaN \/ b.follows[i].id = NaN
    \/ \E i \in DOMAIN b.likes :
          \/ b.likes[i].tweet_id = NaN
          \/ b.likes[i].original_user_id = NaN
          \/ b.likes[i].liked_user_id = NaN
    \/ \E i \in DOMAIN b.tweets :
          b.tweets[i].tweet_id = NaN \/ b.tweets[i].original_user_id = NaN

\* Every timestamp cell of the batch is present and parses.
TimestampsOk(b) ==
    /\ \A i \in DOMAIN b.likes :
          b.likes[i].created_at \in Times /\ b.likes[i].collected_at \in Times
    /\ \A i \in DOMAIN b.tweets :
          b.tweets[i].created_at \in Times /\ b.tweets[i].collected_at \in Times

\* C9: a load of a batch with a row that misses a required id or author
\* field (and is otherwise sound) is committed.
C9_MalformedRowDoesNotAbort ==
    (LoadDone /\ MissingIdField(batch) /\ TimestampsOk(batch)) =>
        last.result = "committed"

\* C10: once step 1 is done, the upserted user ids are Users of the
\* transaction and contain every user id that the tweet, follow and like
\* rows of steps 2 to 4 reference; the transaction's tables reference no
\* absent User.
C10_UsersCoverReferences ==
    InLoad =>
        LET ids == DOMAIN UserList(batch)
        IN  /\ ids \subseteq DOMAIN txUsers
            /\ ~AllTweets(batch).raised =>
                  \A t \in DOMAIN TweetList(batch) :
                      /\ TweetList(batch)[t].author_id \in ids
                      /\ \/ TweetList(batch)[t].retweet_of_user_id = NaN
                         \/ TweetList(batch)[t].retweet_of_user_id \in ids
            /\ \A f \in FollowsList(batch) : f[1] \in ids /\ f[2] \in ids
            /\ \A i \in DOMAIN LikesList(batch.likes) :
                  LikesList(batch.likes)[i].user_id \in ids
            /\ \A t \in DOMAIN txTweets : TweetFkOk(txUsers, txTweets[t])
            /\ \A f \in txFollows : f[1] \in DOMAIN txUsers /\ f[2] \in DOMAIN txUsers
            /\ \A l \in txLikes : l.user_id \in DOMAIN txUsers

\* All four steps of a load ran whose rows reference Users that the store
\* did not hold: a liked Tweet's author and the liker.
C10_Witness ==
    /\ pc = "commit"
    /\ LikesList(batch.likes) # <<>>
    /\ \E t \in DOMAIN TweetList(batch) :
          /\ t \notin DOMAIN Tweets
          /\ TweetList(batch)[t].author_id \notin DOMAIN Users
    /\ \E l \in txLikes : l.user_id \notin DOMAIN Users

\* ---------------------------------------------- the claims on the feeds
FeedQuery ==
    /\ query.op \in {"get_user_feed", "get_user_feed_until",
                     "get_user_feed_until_between"}
    /\ query.raised = "none"

ResultIds == {result[i].tweet_id : i \in DOMAIN result}

Min(a, b) == IF a < b THEN a ELSE b

\* C2: every post that get_user_feed or get_user_feed_until returns for
\* user U is written by U or by a user that a Follows row says U follows.
C2_FeedAuthorsFollowedOrSelf ==
    query.op \in {"get_user_feed", "get_user_feed_until"} =>
        \A i \in DOMAIN result :
            \/ result[i].author_id = query.user_id
            \/ <<query.user_id, result[i].author_id>> \in Follows

\* A feed that holds a post, on a store that also holds a Tweet of an author
\* who is not the user and whom the user does not follow.
C2_Witness ==
    /\ query.op \in {"get_user_feed", "get_user_feed_until"}
    /\ result # <<>>
    /\ \E t \in DOMAIN Tweets :
          /\ Tweets[t].author_id # query.user_id
          /\ <<query.user_id, Tweets[t].author_id>> \notin Follows

\* C3 as claimed: a feed is in created_at order, most recent first, and
\* posts of equal created_at are in descending tweet_id order.
C3_TiesByTweetIdDescending ==
    query.op = "get_user_feed" =>
        \A i, j \in DOMAIN result : i < j =>
            \/ result[i].created_at > result[j].created_at
            \/ /\ result[i].created_at = result[j].created_at
               /\ result[i].tweet_id > result[j].tweet_id

\* C3 as amended: a feed is in created_at order, most recent first; the
\* order of posts of equal created_at is not fixed.
C3_FeedNonIncreasing ==
    query.op = "get_user_feed" =>
        \A i, j \in DOMAIN result : i < j =>
            result[i].created_at >= result[j].created_at

\* A feed of two posts of different created_at.
C3_Witness ==
    /\ query.op = "get_user_feed"
    /\ Len(result) >= 2
    /\ result[1].created_at # result[2].created_at

\* The Tweets of the candidate authors of the last query whose created_at
\* is in the query's time window, both ends included.
InWindow ==
    {t \in DOMAIN Tweets :
        /\ \/ Tweets[t].author_id = query.user_id
           \/ <<query.user_id, Tweets[t].author_id>> \in Follows
        /\ query.op # "get_user_feed" => Tweets[t].created_at <= query.enddate
        /\ (query.op = "get_user_feed_until_between" /\ query.startdate # NaN)
              => query.startdate <= Tweets[t].created_at}

RowsOn(q, S) ==
    CASE q.op = "get_user_feed" ->
            get_user_feed(S[1], S[2], S[3], q.user_id, q.limit)
      [] q.op = "get_tweet_by_id" -> {get_tweet_by_id(S[2], q.tweet_id)}
      [] q.op = "get_user_by_username" -> get_user_by_username(S[1], q.username)

C12_InterleavedCallsSucceed ==
    \A t \in Threads : threads[t].pc = "done" =>
        /\ threads[t].raised = "none"
        /\ threads[t].rows = CallRows(threads[t].op, threads[t].user_id)

\* -------------------------------------- the claims on the query methods
\* The call of get_user_feed returned (the server was up and took the LIMIT).
FeedReturned ==
    query.op = "get_user_feed" /\ query.up /\ query.raised = "none"

\* C13: a get_user_feed that returns holds min(limit, n) posts, n the number
\* of Tweets of the candidate authors and limit 100 when the caller gave
\* none: Tweets of candidate authors, each once, most recent first, and no
\* Tweet that the truncation left out is more recent than one returned.
C13_FeedIsFirstLimitPosts ==
    FeedReturned =>
        /\ Len(result) = Min(query.limit, Cardinality(InWindow))
        /\ ResultIds \subseteq InWindow
        /\ Cardinality(ResultIds) = Len(result)
        /\ \A i, j \in DOMAIN result :
              i < j => result[i].created_at >= result[j].created_at
        /\ \A t \in InWindow \ ResultIds : \A i \in DOMAIN result :
              Tweets[t].created_at <= result[i].created_at

\* A feed cut to one post that leaves out an older Tweet of a candidate
\* author.
C13_Witness ==
    /\ FeedReturned /\ query.limit = 1 /\ Len(result) = 1
    /\ \E t \in InWindow : Tweets[t].created_at < result[1].created_at

\* C14: a feed query with a limit of 0 or less ends with an error; it does
\* not return a feed.
C14_NonPositiveLimitFails ==
    (/\ query.op \in {"get_user_feed", "get_user_feed_until"}
     /\ query.up /\ query.limit <= 0) =>
        query.raised # "none"

\* C15: a call of any query method, whether it returns or raises, leaves
\* Users, Tweets, Follows and Likes as they were.
C15_QueriesLeaveStore ==
    [][(query = NoQuery /\ query' # NoQuery) => store' = store]_vars

\* get_user_likes returned the Likes of a user, and they are still stored.
C15_Witness ==
    /\ query.op = "get_user_likes" /\ result # <<>>
    /\ \A i \in DOMAIN result :
          \E l \in Likes : l.user_id = query.user_id /\ l.tweet_id = result[i]

\* C16: a get_user_feed with a limit that LIMIT accepts returns a sequence
\* and raises nothing when the server is reached, the empty sequence when
\* the user is no User or no candidate author has a Tweet; when the server
\* is not reached it raises and returns nothing.
C16_EmptyFeedIsNotAnError ==
    (query.op = "get_user_feed" /\ query.limit >= 0) =>
        /\ query.up =>
              /\ query.raised = "none"
              /\ (query.user_id \notin DOMAIN Users \/ InWindow = {}) => result = <<>>
              /\ (query.limit > 0 /\ InWindow # {}) => result # <<>>
        /\ ~query.up => query.raised # "none"

\* The server was not reached by a get_user_feed of a user whose feed has
\* posts: the call raised.
C16_Witness ==
    /\ query.op = "get_user_feed" /\ ~query.up /\ query.limit > 0
    /\ query.raised = "OperationalError"
    /\ InWindow # {}

\* C17: get_user_posts(A) returns the stored Tweets with author_id = A, all
\* of them and no other, each once, most recent first; each post carries
\* A's stored username, the stored columns of its Tweet, and the stored
\* username of retweet_of_user_id, null when that field is null.
C17_PostsOfAuthor ==
    (query.op = "get_user_posts" /\ query.up) =>
        /\ query.raised = "none"
        /\ ResultIds = {t \in DOMAIN Tweets : Tweets[t].author_id = query.user_id}
        /\ Cardinality(ResultIds) = Len(result)
        /\ \A i, j \in DOMAIN result :
              i < j => result[i].created_at >= result[j].created_at
        /\ \A i \in DOMAIN result :
              LET t == Tweets[result[i].tweet_id]
              IN  /\ result[i].author_id = query.user_id
                  /\ result[i].author_username = Users[query.user_id]
                  /\ result[i].full_text = t.full_text
                  /\ result[i].created_at = t.created_at
                  /\ result[i].retweet_of_user_id = t.retweet_of_user_id
                  /\ result[i].retweet_of_username =
                        IF t.retweet_of_user_id = NaN THEN None
                        ELSE Users[t.retweet_of_user_id]

\* The posts of an author, one of them a retweet of a User with a stored
\* username, on a store that holds a Tweet of another author.
C17_Witness ==
    /\ query.op = "get_user_posts" /\ result # <<>>
    /\ \E i \in DOMAIN result :
          result[i].retweet_of_user_id # NaN /\ result[i].retweet_of_username # None
    /\ \E t \in DOMAIN Tweets : Tweets[t].author_id # query.user_id

\* ------------------------------------------ more claims on the loader
\* The batch carries, for a stored key, a row with other field values.
TweetConflict ==
    \E t \in DOMAIN TweetList(batch) \cap DOMAIN Tweets :
        TweetList(batch)[t] # Tweets[t]

LikeConflict ==
    \E i \in DOMAIN LikesList(batch.likes) : \E l \in Likes :
        /\ l.user_id = LikesList(batch.likes)[i].user_id
        /\ l.tweet_id = LikesList(batch.likes)[i].tweet_id
        /\ l.collected_at # LikesList(batch.likes)[i].collected_at

\* C18: no step of a load changes or removes a stored Tweet, Follow or
\* Like; and the insert of a step whose rows all have their ids and
\* parseable timestamps does not fail when the batch carries a stored key,
\* with the same or with other field values.
C18_StoredRowsImmutable ==
    [][pc # "idle" =>
          /\ \A t \in DOMAIN Tweets : t \in DOMAIN Tweets' /\ Tweets'[t] = Tweets[t]
          /\ Follows \subseteq Follows'
          /\ Likes \subseteq Likes'
          /\ (/\ pc = "step2" /\ ~AllTweets(batch).raised
              /\ ~TweetListBad(TweetList(batch))
              /\ DOMAIN TweetList(batch) \cap DOMAIN Tweets # {}) =>
                 /\ pc' = "step3"
                 /\ \A t \in DOMAIN Tweets : txTweets'[t] = Tweets[t]
          /\ (pc = "step3" /\ FollowsList(batch) \cap Follows # {}) =>
                 pc' = "step4" /\ Follows \subseteq txFollows'
          /\ (pc = "step4" /\ LikeConflict) =>
                 pc' = "commit" /\ Likes \subseteq txLikes']_vars

\* A load was committed whose batch carries other field values for a stored
\* Tweet and for a stored Like; the stored rows are the old ones.
C18_Witness ==
    /\ LoadDone /\ last.result = "committed"
    /\ TweetConflict
    /\ LikeConflict

\* C20: every stored Tweet, and every Tweet of the loader's transaction,
\* has a created_at that is not null.
C20_CreatedAtNotNull ==
    /\ \A t \in DOMAIN Tweets : Tweets[t].created_at # NaN
    /\ \A t \in DOMAIN txTweets : txTweets[t].created_at # NaN

\* A load has ended whose batch has a tweet row with its ids and without a
\* created_at: the load was rolled back in step 2 and the Tweet is not
\* stored.
C20_Witness ==
    /\ LoadDone /\ last.result = "rolled_back" /\ last.step = 2
    /\ \E i \in DOMAIN batch.tweets :
          /\ batch.tweets[i].tweet_id # NaN
          /\ batch.tweets[i].original_user_id # NaN
          /\ batch.tweets[i].created_at = NaN
          /\ batch.tweets[i].tweet_id \notin DOMAIN Tweets

\* ------------------------------------------------ the claim on the schema
\* C19 as claimed: a run of create_tables, whatever the operator answers,
\* leaves the existing tables and their rows as they were and adds the
\* missing tables; after a run that was not aborted the four tables exist.
C19_CreateTablesKeepsRows ==
    [][last'.op = "create_tables" =>
          /\ tables \subseteq tables'
          /\ store' = store
          /\ last'.result # "a" => tables' = TableNames]_vars

\* C19 as amended: that holds when no table exists or the operator answers
\* [K]eep or [A]bort; on [D]elete the four tables exist afterwards and are
\* empty.
C19_CreateTablesKeepsRowsUnlessDelete ==
    [][last'.op = "create_tables" =>
          /\ last'.result # "a" => tables' = TableNames
          /\ last'.result = "a" => tables' = tables
          /\ last'.result # "d" => tables \subseteq tables' /\ store' = store
          /\ last'.result = "d" =>
                store' = <<EmptyFn, EmptyFn, {}, {}>>]_vars

\* create_tables ran with [K]eep on a database that holds rows, and they
\* are still there.
C19_Witness ==
    /\ last.op = "create_tables" /\ last.result = "k"
    /\ tables = TableNames
    /\ Users # EmptyFn /\ Tweets # EmptyFn

\* Some row of batch b supplies a non-null username for user id u: as the
\* followee of a follows row, the liker of a likes row or the author of a
\* tweets row.
SuppliesUsername(b, u) ==
    \/ \E i \in DOMAIN b.follows :
          b.follows[i].id = u /\ b.follows[i].username # None
    \/ \E i \in DOMAIN b.likes :
          b.likes[i].original_user_id = u /\ b.likes[i].screen_name # None
    \/ \E i \in DOMAIN b.tweets :
          b.tweets[i].original_user_id = u /\ b.tweets[i].screen_name # None

\* C21: after a committed load every user id for which some row of the batch
\* supplies a non-null username is a User with a non-null username, whatever
\* the order in which the rows that mention the id were harvested.
C21_KnownUsernameNotLost ==
    (LoadDone /\ last.result = "committed") =>
        \A u \in UserIds :
            SuppliesUsername(batch, u) =>
                u \in DOMAIN Users /\ Users[u] # None

\* C22: a feed that is returned holds no tweet_id twice, also when the user
\* follows themselves and so is a candidate author both as a followee and as
\* the user.
C22_NoTweetTwiceInFeed ==
    (query.op \in {"get_user_feed", "get_user_feed_until"}
        /\ query.raised = "none") =>
        \A i, j \in DOMAIN result :
            i # j => result[i].tweet_id # result[j].tweet_id

\* The feed of a user who follows themselves, with room for two posts,
\* holds a Tweet of that user.
C22_Witness ==
    /\ FeedReturned /\ query.limit >= 2
    /\ <<query.user_id, query.user_id>> \in Follows
    /\ \E i \in DOMAIN result : result[i].author_id = query.user_id

\* C23: a call works on the connection it opened and on no other: the cursor
\* it creates is on its own connection, and its finally clause closes its own
\* connection, so that the connection is closed when the call ends.
C23_OwnConnectionOnly ==
    [][\A t \in Threads :
          /\ (threads[t].pc = "connected" /\ threads'[t].pc = "cursor")
                => threads'[t].cur = t
          /\ (threads[t].pc = "finally" /\ threads'[t].pc = "done")
                => (self_conn = t /\ conns'[t] = "closed")]_vars


====
